---- MODULE Spec2Model ----
(***************************************************************************)
(* vsm, the vim session manager.                                           *)
(*                                                                         *)
(* Two independent parts of the program are modelled:                      *)
(*   - ThreadSafeMeta.__call__, the metaclass that makes Config a          *)
(*     singleton (src/vim_session_manager/__init__.py), run by several     *)
(*     threads, one line of the method per step;                           *)
(*   - main(), the entry point (src/vsm/main.py), one run per behaviour,   *)
(*     over every combination of flags, installed editors and session      *)
(*     files.                                                              *)
(* SpecConfig / FairSpecConfig are the behaviours of the first part,       *)
(* SpecMain those of the second.                                           *)
(***************************************************************************)
EXTENDS Naturals, FiniteSets, Sequences

\* ------------------------------------------------------------------ bounds
\* Number of threads calling Config(...).
NThreads == 2
\* Number of calls of Config(...) made in all.
MaxCalls == 4

Threads == 1..NThreads

\* The value of a missing entry, key or result.
None == "None"

\* Constructor arguments of one call: Config() or Config(x).
NoArgs == "no_args"
SomeArgs == "some_args"
CallArgs == {NoArgs, SomeArgs}

\* The editors main() looks for, and the value of a flag that takes a path
\* and was not given.
Editors == {"nvim", "vim"}
NoPath == <<>>

VARIABLES
    \* ---- ThreadSafeMeta / Config
    instances,      \* ThreadSafeMeta._instances: the dict, class -> instance's identity
    lock,           \* ThreadSafeMeta._lock: TRUE while the lock is held
    tpc,            \* tpc[t]: the line of __call__ thread t is at, "idle" outside a call
    targs,          \* targs[t]: the arguments of t's current (or last) call
    instance,       \* instance[t]: the local variable `instance` of t's call, 0 while unbound
    calls,          \* number of calls started so far, by all threads
    result,         \* result[t]: the value t's last call that returned gave it, 0 if none
    nextId,         \* identity the next constructed object gets (identities are 1, 2, ...)
    \* ---- history of the singleton, for the properties
    ctorRuns,       \* number of times super().__call__ was entered
    ctorDone,       \* number of times super().__call__ returned an object
    returned,       \* set of all values any call has returned
    sawInstance,    \* sawInstance[t]: t is in a call that started when the instance existed
    \* ---- main()
    pc,             \* the statement main() is at
    installed,      \* executables on the search path
    argv,           \* the parsed flags: [list, remove, open, status]
    files,          \* session files on disk (paths)
    dirExists,      \* the sessions directory exists
    files0,         \* the files on disk when main() started
    value,          \* the local `value`: the resolved path of the remove/open branch
    ret,            \* main()'s return value, None while running
    lookups,        \* search-path lookups made (sequence of executable names)
    cliParsed,      \* Cli() was constructed
    resolved,       \* arguments handed to remove_session/open_session (sequence)
    listed,         \* results of the list_sessions() calls (sequence of sets)
    unlinked,       \* paths unlinked (sequence)
    executed,       \* command lines executed, with their outcome (sequence)
    branches,       \* branches of the if/elif chain that were entered (sequence)
    logged          \* log lines, by level (sequence)

configVars == <<instances, lock, tpc, targs, instance, calls, result, nextId,
                ctorRuns, ctorDone, returned, sawInstance>>
mainVars == <<pc, installed, argv, files, dirExists, files0, value, ret, lookups, cliParsed,
              resolved, listed, unlinked, executed, branches, logged>>
vars == <<configVars, mainVars>>

\* ==================================================================
\* ThreadSafeMeta.__call__ (src/vim_session_manager/__init__.py:17-37)
\* ==================================================================

\* Config defines neither __init__ nor __new__ (lines 40-102), so
\* super().__call__(*args, **kwargs) is object's constructor: it returns a new
\* object for no arguments and raises TypeError for any argument.
CtorRaises(a) == a # NoArgs

\* Lock.acquire() of `with cls._lock` blocks until the lock is free.
CanAcquireUnlocked(t) == TRUE
CanAcquire(t) == ~lock

\* The classes created with the metaclass, and the empty dict.
Classes == {"Config"}
EmptyDict == [c \in {} |-> 0]

\* The thread is inside the `with cls._lock:` block (lines 27-36).
InLockedSection(t) == tpc[t] \in {"check", "construct", "store", "exit_with", "unwind"}

\* No thread has called Config(...) yet; main() is not running.
InitConfig ==
    /\ instances = EmptyDict
    /\ lock = FALSE
    /\ tpc = [t \in Threads |-> "idle"]
    /\ targs = [t \in Threads |-> NoArgs]
    /\ instance = [t \in Threads |-> 0]
    /\ calls = 0
    /\ result = [t \in Threads |-> 0]
    /\ nextId = 1
    /\ ctorRuns = 0
    /\ ctorDone = 0
    /\ returned = {}
    /\ sawInstance = [t \in Threads |-> FALSE]
    /\ pc = "preflight"
    /\ installed = Editors
    /\ argv = [list_sessions |-> FALSE, remove_session |-> NoPath,
               open_session |-> NoPath, the_current_state_of_things |-> FALSE]
    /\ files = {}
    /\ dirExists = FALSE
    /\ files0 = files
    /\ value = NoPath
    /\ ret = None
    /\ lookups = <<>>
    /\ cliParsed = FALSE
    /\ resolved = <<>>
    /\ listed = <<>>
    /\ unlinked = <<>>
    /\ executed = <<>>
    /\ branches = <<>>
    /\ logged = <<>>

\* Thread t calls Config(*a): __call__ is entered (line 17).
Call(t, a) ==
    /\ tpc[t] = "idle"
    /\ calls < MaxCalls
    /\ tpc' = [tpc EXCEPT ![t] = "acquire"]
    /\ targs' = [targs EXCEPT ![t] = a]
    /\ instance' = [instance EXCEPT ![t] = 0]
    /\ calls' = calls + 1
    /\ sawInstance' = [sawInstance EXCEPT ![t] = ("Config" \in DOMAIN instances)]
    /\ UNCHANGED mainVars /\ UNCHANGED <<instances, lock, result, nextId, ctorRuns, ctorDone, returned>>

\* line 27: `with cls._lock:` acquires the lock.
Acquire(t) ==
    /\ tpc[t] = "acquire"
    /\ CanAcquire(t)
    /\ lock' = TRUE
    /\ tpc' = [tpc EXCEPT ![t] = "check"]
    /\ UNCHANGED mainVars /\ UNCHANGED <<instances, targs, instance, calls, result, nextId,
                   ctorRuns, ctorDone, returned, sawInstance>>

\* line 34: `if cls not in cls._instances:`
Check(t) ==
    /\ tpc[t] = "check"
    /\ tpc' = [tpc EXCEPT ![t] = IF "Config" \notin DOMAIN instances THEN "construct" ELSE "exit_with"]
    /\ UNCHANGED mainVars /\ UNCHANGED <<instances, lock, targs, instance, calls, result, nextId,
                   ctorRuns, ctorDone, returned, sawInstance>>

\* line 35: `instance = super().__call__(*args, **kwargs)`; an exception
\* leaves the with block without reaching line 36.
Construct(t) ==
    /\ tpc[t] = "construct"
    /\ ctorRuns' = ctorRuns + 1
    /\ IF CtorRaises(targs[t])
       THEN /\ tpc' = [tpc EXCEPT ![t] = "unwind"]
            /\ UNCHANGED <<instance, nextId, ctorDone>>
       ELSE /\ instance' = [instance EXCEPT ![t] = nextId]
            /\ nextId' = nextId + 1
            /\ ctorDone' = ctorDone + 1
            /\ tpc' = [tpc EXCEPT ![t] = "store"]
    /\ UNCHANGED mainVars /\ UNCHANGED <<instances, lock, targs, calls, result, returned,
                   sawInstance>>

\* line 36: `cls._instances[cls] = instance`
Store(t) ==
    /\ tpc[t] = "store"
    /\ instances' = [c \in DOMAIN instances \cup {"Config"} |->
                        IF c = "Config" THEN instance[t] ELSE instances[c]]
    /\ tpc' = [tpc EXCEPT ![t] = "exit_with"]
    /\ UNCHANGED mainVars /\ UNCHANGED <<lock, targs, instance, calls, result, nextId,
                   ctorRuns, ctorDone, returned, sawInstance>>

\* The lock after the with block is left: Lock.__exit__ releases it.
ReleasedKeepsLock(l) == l
Released(l) == FALSE

\* end of the with block (normal exit): the lock is released.
ExitWith(t) ==
    /\ tpc[t] = "exit_with"
    /\ lock' = Released(lock)
    /\ tpc' = [tpc EXCEPT ![t] = "return"]
    /\ UNCHANGED mainVars /\ UNCHANGED <<instances, targs, instance, calls, result, nextId,
                   ctorRuns, ctorDone, returned, sawInstance>>

\* The lock after the with block is left by an exception: Lock.__exit__
\* releases it all the same.
UnwoundKeepsLock(l) == l
Unwound(l) == FALSE

\* the with block left by the constructor's exception: the lock is released
\* and the exception propagates to the caller.
Unwind(t) ==
    /\ tpc[t] = "unwind"
    /\ lock' = Unwound(lock)
    /\ tpc' = [tpc EXCEPT ![t] = "idle"]
    /\ sawInstance' = [sawInstance EXCEPT ![t] = FALSE]
    /\ UNCHANGED mainVars /\ UNCHANGED <<instances, targs, instance, calls, result, nextId,
                   ctorRuns, ctorDone, returned>>

\* line 37: `return cls._instances[cls]`
Return(t) ==
    /\ tpc[t] = "return"
    /\ result' = [result EXCEPT ![t] = instances["Config"]]
    /\ returned' = returned \cup {instances["Config"]}
    /\ tpc' = [tpc EXCEPT ![t] = "idle"]
    /\ sawInstance' = [sawInstance EXCEPT ![t] = FALSE]
    /\ UNCHANGED mainVars /\ UNCHANGED <<instances, lock, targs, instance, calls, nextId,
                   ctorRuns, ctorDone>>

\* One step of thread t inside __call__, the lock acquisition apart.
Step(t) ==
    \/ Check(t)
    \/ Construct(t)
    \/ Store(t)
    \/ ExitWith(t)
    \/ Unwind(t)
    \/ Return(t)

NextConfig ==
    \/ \E t \in Threads, a \in CallArgs : Call(t, a)
    \/ \E t \in Threads : Acquire(t)
    \/ \E t \in Threads : Check(t)
    \/ \E t \in Threads : Construct(t)
    \/ \E t \in Threads : Store(t)
    \/ \E t \in Threads : ExitWith(t)
    \/ \E t \in Threads : Unwind(t)
    \/ \E t \in Threads : Return(t)

\* ==================================================================
\* The collaborators of main(): ShellManager, Cli, VimSessionManager
\* ==================================================================

\* A path is <<directory, file name>>. A bare session name is a path relative
\* to ".", which the session manager looks up under the sessions directory.
SessionsDir == "sessions"
SessionNames == {"a.vim", "b.vim"}
Paths == ({SessionsDir} \X SessionNames) \cup {<<"elsewhere", "c.vim">>}
SessionArgs == ({"."} \X SessionNames) \cup Paths

\* The states of the disk: no file lies in a sessions directory that does not exist.
Disks == {d \in [files : SUBSET Paths, dirExists : BOOLEAN] :
            d.dirExists \/ \A p \in d.files : p[1] # SessionsDir}

\* Cli().args: what the flags parse to.
Flags == [list_sessions : BOOLEAN,
          remove_session : SessionArgs \cup {NoPath},
          open_session : SessionArgs \cup {NoPath},
          the_current_state_of_things : BOOLEAN]

Ok(v) == [ok |-> TRUE, val |-> v]
Err(e) == [ok |-> FALSE, val |-> <<e>>]

\* ShellManager.is_installed(name): the executable is on the search path.
is_installed(name, inst) == name \in inst

\* ShellManager.execute(command): the possible results of running the
\* command and waiting for it. A command whose executable is missing cannot
\* succeed; an editor that starts may exit with any status.
execute(command, inst) ==
    IF is_installed(command[1], inst)
    THEN {Ok(<<>>), Err("ExecutionFailure")}
    ELSE {Err("ExecutionFailure")}

\* The path a session argument names: a bare name lies under the sessions
\* directory, a full path is used as given.
resolve_session(arg) == IF arg[1] = "." THEN <<SessionsDir, arg[2]>> ELSE arg

\* VimSessionManager.open_session(path): the resolved path if the file
\* exists, a SessionNotFound failure otherwise.
open_session(arg, fs) ==
    IF resolve_session(arg) \in fs THEN Ok(resolve_session(arg)) ELSE Err("SessionNotFound")

\* VimSessionManager.remove_session(path): resolves like open_session and
\* deletes nothing.
remove_session(arg, fs) == open_session(arg, fs)

\* VimSessionManager.list_sessions(): the files directly inside the sessions
\* directory, none if the directory does not exist.
list_sessions(fs, dir) == IF dir THEN {p \in fs : p[1] = SessionsDir} ELSE {}

\* ==================================================================
\* main() (src/vsm/main.py:20-74)
\* ==================================================================

\* line 30: `not shell.is_installed("nvim") and not shell.is_installed("vim")`
PreflightFailsDroppedNot(inst) == ~is_installed("nvim", inst) /\ is_installed("vim", inst)
PreflightFails(inst) == ~is_installed("nvim", inst) /\ ~is_installed("vim", inst)

\* line 30: the search-path lookups the condition makes; `and` evaluates its
\* second operand only when the first is true.
PreflightLookups(inst) ==
    IF ~is_installed("nvim", inst) THEN <<"nvim", "vim">> ELSE <<"nvim">>

\* lines 36, 39, 51, 66, 69: the if/elif chain. A flag is set when its value
\* is truthy: True, or a non-empty string.
SelectBranchRemoveFirst(a) ==
    IF a.remove_session # NoPath THEN "remove"
    ELSE IF a.list_sessions THEN "list"
    ELSE IF a.open_session # NoPath THEN "open"
    ELSE IF a.the_current_state_of_things THEN "status"
    ELSE "none"
SelectBranchOpenFirst(a) ==
    IF a.list_sessions THEN "list"
    ELSE IF a.open_session # NoPath THEN "open"
    ELSE IF a.remove_session # NoPath THEN "remove"
    ELSE IF a.the_current_state_of_things THEN "status"
    ELSE "none"
SelectBranchDefaultList(a) ==
    IF a.list_sessions THEN "list"
    ELSE IF a.remove_session # NoPath THEN "remove"
    ELSE IF a.open_session # NoPath THEN "open"
    ELSE IF a.the_current_state_of_things THEN "status"
    ELSE "list"
SelectBranch(a) ==
    IF a.list_sessions THEN "list"
    ELSE IF a.remove_session # NoPath THEN "remove"
    ELSE IF a.open_session # NoPath THEN "open"
    ELSE IF a.the_current_state_of_things THEN "status"
    ELSE "none"

\* line 45: `value.unlink()`
UnlinkAll(fs, v) == {}
Unlink(fs, v) == fs \ {v}

\* line 56: the command line of the open branch, f"nvim -S {value}"
EditorCommand(v) == <<"nvim", "-S", v>>

\* lines 56-61: the exit code of the open branch after the command ran.
ExecuteExitCodeIgnored(r) == 0
ExecuteExitCode(r) == IF r.ok THEN 0 ELSE 1

\* main() is called with any flags, on any disk, with any editors installed;
\* no thread has called Config(...).
InitMain ==
    /\ instances = EmptyDict
    /\ lock = FALSE
    /\ tpc = [t \in Threads |-> "idle"]
    /\ targs = [t \in Threads |-> NoArgs]
    /\ instance = [t \in Threads |-> 0]
    /\ calls = 0
    /\ result = [t \in Threads |-> 0]
    /\ nextId = 1
    /\ ctorRuns = 0
    /\ ctorDone = 0
    /\ returned = {}
    /\ sawInstance = [t \in Threads |-> FALSE]
    /\ pc = "preflight"
    /\ installed \in SUBSET Editors
    /\ argv \in Flags
    /\ \E d \in Disks : files = d.files /\ dirExists = d.dirExists
    /\ files0 = files
    /\ value = NoPath
    /\ ret = None
    /\ lookups = <<>>
    /\ cliParsed = FALSE
    /\ resolved = <<>>
    /\ listed = <<>>
    /\ unlinked = <<>>
    /\ executed = <<>>
    /\ branches = <<>>
    /\ logged = <<>>

\* lines 26-32: the preflight check.
Preflight ==
    /\ pc = "preflight"
    /\ lookups' = lookups \o PreflightLookups(installed)
    /\ IF PreflightFails(installed)
       THEN /\ logged' = Append(logged, "error")
            /\ ret' = 1
            /\ pc' = "done"
       ELSE /\ pc' = "cli"
            /\ UNCHANGED <<logged, ret>>
    /\ UNCHANGED configVars /\ UNCHANGED <<installed, argv, files, dirExists, files0, value, cliParsed,
                   resolved, listed, unlinked, executed, branches>>

\* lines 34-35: `cli = Cli()`, `vsm = VimSessionManager()`
ParseCli ==
    /\ pc = "cli"
    /\ cliParsed' = TRUE
    /\ pc' = "dispatch"
    /\ UNCHANGED configVars /\ UNCHANGED <<installed, argv, files, dirExists, files0, value, ret, lookups,
                   resolved, listed, unlinked, executed, branches, logged>>

\* lines 36-69: the if/elif chain enters one branch.
Dispatch ==
    /\ pc = "dispatch"
    /\ pc' = SelectBranch(argv)
    /\ branches' = Append(branches, SelectBranch(argv))
    /\ UNCHANGED configVars /\ UNCHANGED <<installed, argv, files, dirExists, files0, value, ret, lookups,
                   cliParsed, resolved, listed, unlinked, executed, logged>>

\* lines 36-37, 74: the list branch.
ListBranch ==
    /\ pc = "list"
    /\ listed' = Append(listed, list_sessions(files, dirExists))
    /\ ret' = 0
    /\ pc' = "done"
    /\ UNCHANGED configVars /\ UNCHANGED <<installed, argv, files, dirExists, files0, value, lookups,
                   cliParsed, resolved, unlinked, executed, branches, logged>>

\* lines 39-43, 47-49: the remove branch resolves the session.
RemoveResolve ==
    /\ pc = "remove"
    /\ LET r == remove_session(argv.remove_session, files) IN
        /\ resolved' = Append(resolved, <<"remove_session", argv.remove_session, r.ok>>)
        /\ IF r.ok
           THEN /\ value' = r.val
                /\ logged' = Append(logged, "warn")
                /\ pc' = "unlink"
                /\ UNCHANGED ret
           ELSE /\ logged' = Append(logged, "error")
                /\ ret' = 1
                /\ pc' = "done"
                /\ UNCHANGED value
    /\ UNCHANGED configVars /\ UNCHANGED <<installed, argv, files, dirExists, files0, lookups, cliParsed,
                   listed, unlinked, executed, branches>>

\* lines 45-46, 74: the remove branch deletes the resolved file.
RemoveUnlink ==
    /\ pc = "unlink"
    /\ files' = Unlink(files, value)
    /\ unlinked' = Append(unlinked, value)
    /\ logged' = Append(logged, "info")
    /\ ret' = 0
    /\ pc' = "done"
    /\ UNCHANGED configVars /\ UNCHANGED <<installed, argv, dirExists, files0, value, lookups, cliParsed,
                   resolved, listed, executed, branches>>

\* lines 51-55, 62-64: the open branch resolves the session.
OpenResolve ==
    /\ pc = "open"
    /\ LET r == open_session(argv.open_session, files) IN
        /\ resolved' = Append(resolved, <<"open_session", argv.open_session, r.ok>>)
        /\ IF r.ok
           THEN /\ value' = r.val
                /\ logged' = Append(logged, "info")
                /\ pc' = "execute"
                /\ UNCHANGED ret
           ELSE /\ logged' = Append(logged, "error")
                /\ ret' = 1
                /\ pc' = "done"
                /\ UNCHANGED value
    /\ UNCHANGED configVars /\ UNCHANGED <<installed, argv, files, dirExists, files0, lookups, cliParsed,
                   listed, unlinked, executed, branches>>

\* lines 56-61: the open branch runs the editor and returns by its result.
OpenExecute ==
    /\ pc = "execute"
    /\ \E r \in execute(EditorCommand(value), installed) :
        /\ executed' = Append(executed, <<EditorCommand(value), r.ok>>)
        /\ ret' = ExecuteExitCode(r)
        /\ logged' = IF r.ok THEN logged ELSE Append(logged, "error")
    /\ pc' = "done"
    /\ UNCHANGED configVars /\ UNCHANGED <<installed, argv, files, dirExists, files0, value, lookups,
                   cliParsed, resolved, listed, unlinked, branches>>

\* lines 66-67, 74: the status branch.
StatusBranch ==
    /\ pc = "status"
    /\ logged' = Append(logged, "warn")
    /\ ret' = 0
    /\ pc' = "done"
    /\ UNCHANGED configVars /\ UNCHANGED <<installed, argv, files, dirExists, files0, value, lookups,
                   cliParsed, resolved, listed, unlinked, executed, branches>>

\* lines 69-72: no flag is set.
NoArguments ==
    /\ pc = "none"
    /\ logged' = Append(logged, "error")
    /\ ret' = 1
    /\ pc' = "done"
    /\ UNCHANGED configVars /\ UNCHANGED <<installed, argv, files, dirExists, files0, value, lookups,
                   cliParsed, resolved, listed, unlinked, executed, branches>>

NextMain ==
    \/ Preflight
    \/ ParseCli
    \/ Dispatch
    \/ ListBranch
    \/ RemoveResolve
    \/ RemoveUnlink
    \/ OpenResolve
    \/ OpenExecute
    \/ StatusBranch
    \/ NoArguments

\* ==================================================================
\* Properties of the Config singleton
\* ==================================================================

\* The singleton exists: Config is a key of _instances.
HasInstance == "Config" \in DOMAIN instances

\* Once stored, the entry of Config in _instances never changes.
NeverReplaced == [][HasInstance => instances' = instances]_vars

\* Thread t's call ends in this step by returning (line 37), or by the
\* constructor's exception leaving __call__.
Returns(t) == tpc[t] = "return" /\ tpc'[t] = "idle"
Raises(t) == tpc[t] = "unwind" /\ tpc'[t] = "idle"

\* C1 as stated: the constructor runs at most once, every call returns the
\* very same instance, and a stored instance is never replaced.
C1_ConstructorRunsAtMostOnce ==
    /\ [](ctorRuns <= 1 /\ Cardinality(returned) <= 1)
    /\ NeverReplaced

\* C1 amended: the constructor returns an object at most once (a run of the
\* constructor that raises stores nothing and may be followed by another
\* run); every call that returns, returns the one stored instance; and a
\* stored instance is never replaced.
C1_OneInstance ==
    /\ [](/\ ctorDone <= 1
          /\ Cardinality(returned) <= 1
          /\ returned # {} => HasInstance /\ returned = {instances["Config"]}
          /\ \A t \in Threads : result[t] # 0 =>
                HasInstance /\ result[t] = instances["Config"])
    /\ NeverReplaced

\* C1 witness: every thread has got the instance, after a run of the
\* constructor that raised.
C1_Witness ==
    /\ \A t \in Threads : result[t] # 0 /\ tpc[t] = "idle"
    /\ ctorRuns >= 2
    /\ ctorDone = 1

\* C8 as stated: a call that starts after the instance exists returns it
\* without ever waiting for or acquiring the lock.
C8_SteadyStateLockFree ==
    \A t \in Threads : sawInstance[t] => tpc[t] # "acquire" /\ ~InLockedSection(t)

\* At most one thread is inside the with block.
MutualExclusion == Cardinality({t \in Threads : InLockedSection(t)}) <= 1

\* The lock is free whenever no thread is inside the with block.
LockFreeOutside == (\A t \in Threads : ~InLockedSection(t)) => ~lock

\* Every call that was started eventually ends.
EveryCallEnds == \A t \in Threads : (tpc[t] # "idle") ~> (tpc[t] = "idle")

\* C10 as stated: under fair scheduling every call eventually returns an
\* instance (it ends, and ends in no other way), at most one thread is
\* inside the check-and-create section, and the lock is free whenever no
\* thread is inside it.
C10_EveryCallReturnsInstance ==
    /\ EveryCallEnds
    /\ [][\A t \in Threads : tpc[t] # "idle" /\ tpc'[t] = "idle" => Returns(t)]_vars
    /\ []MutualExclusion
    /\ []LockFreeOutside

\* C10 amended: under fair scheduling every call eventually ends, returning
\* the instance or, when its run of the constructor raised, propagating the
\* exception; at most one thread is inside the check-and-create section;
\* and the lock is free whenever no thread is inside it.
C10_EveryCallEnds ==
    /\ EveryCallEnds
    /\ [][\A t \in Threads : tpc[t] # "idle" /\ tpc'[t] = "idle" =>
            \/ Returns(t) /\ HasInstance /\ result'[t] = instances["Config"]
            \/ Raises(t) /\ CtorRaises(targs[t])]_vars
    /\ []MutualExclusion
    /\ []LockFreeOutside

\* C10 witness: a run of the constructor has raised, that call has ended,
\* the lock is free again and another call has got the instance since.
C10_Witness ==
    /\ ctorRuns > ctorDone
    /\ \A t \in Threads : tpc[t] = "idle"
    /\ ~lock
    /\ \E t \in Threads : result[t] # 0

\* ==================================================================
\* Properties of main()
\* ==================================================================

Done == pc = "done"

\* The preflight finds an editor: nvim or vim is on the search path.
EditorFound == "nvim" \in installed \/ "vim" \in installed

\* The flags as given on the command line.
ListSet == argv.list_sessions
RemoveSet == argv.remove_session # NoPath
OpenSet == argv.open_session # NoPath
StatusSet == argv.the_current_state_of_things
NoFlags == ~ListSet /\ ~RemoveSet /\ ~OpenSet /\ ~StatusSet

\* The first flag that is set, in the order list, remove, open, status, none.
FirstFlag ==
    CASE ListSet -> "list"
      [] ~ListSet /\ RemoveSet -> "remove"
      [] ~ListSet /\ ~RemoveSet /\ OpenSet -> "open"
      [] ~ListSet /\ ~RemoveSet /\ ~OpenSet /\ StatusSet -> "status"
      [] NoFlags -> "none"

\* What each branch does: the calls it makes and the changes it causes.
ListActed == listed # <<>>
RemoveActed == (\E i \in 1..Len(resolved) : resolved[i][1] = "remove_session")
                  \/ unlinked # <<>> \/ files # files0
OpenActed == (\E i \in 1..Len(resolved) : resolved[i][1] = "open_session")
                \/ executed # <<>>

\* C2: after the preflight passes exactly one branch is entered, the one of
\* the first flag set in the order list, remove, open, status, none, and no
\* other branch has any effect.
C2_FirstFlagOnly ==
    /\ Len(branches) <= 1
    /\ \A i \in 1..Len(branches) : branches[i] = FirstFlag
    /\ (Done /\ EditorFound) => branches = <<FirstFlag>>
    /\ ListActed => FirstFlag = "list"
    /\ RemoveActed => FirstFlag = "remove"
    /\ OpenActed => FirstFlag = "open"

\* C2 witness: a finished run with list, remove and open all set, where the
\* file named by remove exists and is still there.
C2_Witness ==
    /\ Done /\ EditorFound
    /\ ListSet /\ RemoveSet /\ OpenSet
    /\ resolve_session(argv.remove_session) \in files
    /\ resolve_session(argv.open_session) \in files
    /\ executed = <<>>

\* C3: with neither nvim nor vim installed main returns 1 and nothing else
\* happens: no argument parsing, no listing, no resolution, no deletion, no
\* execution, whatever the flags.
C3_FailFast ==
    ~EditorFound =>
        /\ pc \in {"preflight", "done"}
        /\ Done => ret = 1
        /\ ~cliParsed
        /\ branches = <<>>
        /\ listed = <<>>
        /\ resolved = <<>>
        /\ unlinked = <<>>
        /\ executed = <<>>
        /\ files = files0

\* C3 witness: a finished run without an editor, with list, remove and open
\* all set and the file to remove on disk.
C3_Witness ==
    /\ Done /\ ~EditorFound
    /\ ListSet /\ RemoveSet /\ OpenSet
    /\ resolve_session(argv.remove_session) \in files

\* The remove branch is the selected branch, and what remove_session
\* returned in it.
RemoveSelected == EditorFound /\ FirstFlag = "remove"
RemoveSucceeded == Len(resolved) = 1 /\ resolved[1][3]
RemoveFailed == Len(resolved) = 1 /\ ~resolved[1][3]

\* C4: a file is deleted iff the remove branch is selected and
\* remove_session succeeded; then exactly the resolved path is unlinked and
\* main returns 0. On failure main returns 1 and the disk is unchanged.
\* remove_session deletes nothing: the file is still there until the unlink.
C4_RemoveDeletesResolvedOnly ==
    /\ Len(unlinked) <= 1
    /\ (files # files0 \/ unlinked # <<>>) => Done /\ RemoveSelected /\ RemoveSucceeded
    /\ (Done /\ RemoveSelected /\ RemoveSucceeded) =>
          /\ value = resolve_session(argv.remove_session)
          /\ value \in files0
          /\ unlinked = <<value>>
          /\ files = files0 \ {value}
          /\ ret = 0
    /\ (Done /\ RemoveSelected /\ RemoveFailed) =>
          /\ ret = 1
          /\ files = files0
    /\ (Done /\ RemoveSelected) => RemoveSucceeded \/ RemoveFailed
    /\ pc = "unlink" =>
          /\ RemoveSelected /\ RemoveSucceeded
          /\ value \in files
          /\ files = files0

\* C4 witness: a finished run that deleted one of several files.
C4_Witness ==
    /\ Done /\ RemoveSelected
    /\ files # files0
    /\ files # {}

\* The open branch is the selected branch, and what open_session returned
\* in it.
OpenSelected == EditorFound /\ FirstFlag = "open"
OpenSucceeded == Len(resolved) = 1 /\ resolved[1][3]

\* C5: in the open branch main returns 0 iff open_session succeeded and
\* the one execution of `nvim -S <path>` succeeded, and 1 otherwise; no
\* command runs when the resolution fails; the command runs at most once.
C5_ExitCodeMirrorsExecution ==
    /\ Len(executed) <= 1
    /\ (Done /\ OpenSelected) =>
          /\ Len(resolved) = 1
          /\ ret \in {0, 1}
          /\ ret = 0 <=> (OpenSucceeded /\ Len(executed) = 1 /\ executed[1][2])
          /\ ~OpenSucceeded => executed = <<>>
          /\ OpenSucceeded =>
                /\ Len(executed) = 1
                /\ value = resolve_session(argv.open_session)
                /\ executed[1][1] = <<"nvim", "-S", value>>

\* C5 witness: a finished run of the open branch in which nvim is installed,
\* was started and failed.
C5_Witness ==
    /\ Done /\ OpenSelected
    /\ "nvim" \in installed
    /\ Len(executed) = 1 /\ ~executed[1][2]
    /\ ret = 1

\* What a run without flags must leave alone, search-path lookups apart.
NoFlagsNoSessionAccess ==
    /\ Done => ret = 1
    /\ listed = <<>>
    /\ resolved = <<>>
    /\ unlinked = <<>>
    /\ executed = <<>>
    /\ files = files0

\* C6 as stated: a run without flags returns 1 and makes no filesystem
\* query, no session-directory access, no deletion and no execution,
\* whether or not an editor is installed.
C6_NoFlagsNoFilesystem ==
    NoFlags => NoFlagsNoSessionAccess /\ lookups = <<>>

\* C6 amended: a run without flags returns 1, whether or not an editor is
\* installed; the only filesystem queries it makes are the preflight's
\* search-path lookups of nvim and, if nvim is missing, vim; it makes no
\* session-directory access, no deletion and no execution.
C6_NoFlagsPreflightOnly ==
    NoFlags =>
        /\ NoFlagsNoSessionAccess
        /\ lookups \in {<<>>, <<"nvim">>, <<"nvim", "vim">>}

\* C6 witness: a finished run without flags that passed the preflight,
\* with session files on disk.
C6_Witness ==
    /\ Done /\ NoFlags /\ EditorFound
    /\ branches = <<"none">>
    /\ \E p \in files : p[1] = SessionsDir

\* C7 as stated: whenever the list flag is set main calls list_sessions()
\* and returns 0, for every installed-editor state.
C7_ListAlwaysZero ==
    (Done /\ ListSet) => Len(listed) = 1 /\ ret = 0

\* C7 amended: whenever the list flag is set and nvim or vim is installed,
\* main calls list_sessions() once and returns 0, for every state of the
\* sessions directory and every combination of the other flags.
C7_ListZeroAfterPreflight ==
    (Done /\ ListSet /\ EditorFound) =>
        /\ Len(listed) = 1
        /\ listed[1] = IF dirExists THEN {p \in files0 : p[1] = SessionsDir} ELSE {}
        /\ ret = 0

\* C7 witness: a finished run with list set and the sessions directory
\* missing, remove and open set too.
C7_Witness ==
    /\ Done /\ ListSet /\ EditorFound
    /\ ~dirExists
    /\ RemoveSet /\ OpenSet
    /\ listed = <<{}>>

\* C9 as stated: the editor named in an executed command is one the
\* preflight found installed.
C9_ExecutedEditorInstalled ==
    \A i \in 1..Len(executed) : executed[i][1][1] \in installed

\* ==================================================================
\* Specifications
\* ==================================================================

\* Threads calling Config(...); main() is not running.
SpecConfig == InitConfig /\ [][NextConfig]_vars

\* The same under fair scheduling: a thread inside __call__ keeps running,
\* and a thread waiting for the lock gets it if the lock is free again and
\* again. Nothing obliges a thread to start a call.
FairSpecConfig ==
    /\ InitConfig /\ [][NextConfig]_vars
    /\ \A t \in Threads : WF_vars(Step(t))
    /\ \A t \in Threads : SF_vars(Acquire(t))

\* One run of main(); no thread calls Config(...).
SpecMain == InitMain /\ [][NextMain]_vars

====
